---- MODULE Spec2Model ----
(***************************************************************************)
(* Model of dirtree.c: the recursive directory walk processDir, the sort   *)
(* of siblings (dirent_compare), the per-root and grand-total statistics   *)
(* of main, and main's split of a root path with basename/dirname.         *)
(*                                                                         *)
(* The output modelled is the entry lines processDir prints; the summary  *)
(* blocks main prints under -s, and the parsing of the options, read no    *)
(* state the walk depends on and are left out.  basename and dirname are   *)
(* the ones of the C library the program is built against (glibc, through  *)
(* <libgen.h>), modelled by what they do to the buffer they are given.     *)
(*                                                                         *)
(* Strings are sequences of byte values.  A C buffer is a sequence of      *)
(* bytes that contains a NUL; the C string at offset p of a buffer is the  *)
(* bytes from p up to the first NUL.  Offsets are 1-based.                  *)
(***************************************************************************)
EXTENDS Integers, Sequences, FiniteSets, TLC

\* ------------------------------------------------------------------ bytes
NUL == 0
SEP == 47
DOT == 46

DotName == <<DOT>>
DotDotName == <<DOT, DOT>>

\* ------------------------------------------------------- C string helpers

RECURSIVE FirstNul(_, _)
\* offset of the first NUL of buffer buf at or after offset p
FirstNul(buf, p) ==
  IF buf[p] = NUL THEN p ELSE FirstNul(buf, p + 1)

\* the C string that starts at offset p of buf
CStr(buf, p) == SubSeq(buf, p, FirstNul(buf, p) - 1)

\* strlen of the C string at the start of buf
strlen(buf) == FirstNul(buf, 1) - 1

\* strdup: a fresh NUL-terminated buffer holding s
strdup(s) == Append(s, NUL)

RECURSIVE LastAtOrBefore(_, _, _)
\* largest offset q <= p with buf[q] = c, 0 when there is none
LastAtOrBefore(buf, c, p) ==
  IF p = 0 THEN 0
  ELSE IF buf[p] = c THEN p ELSE LastAtOrBefore(buf, c, p - 1)

\* strrchr(buf, c): offset of the last c in the string, 0 for NULL
strrchr(buf, c) == LastAtOrBefore(buf, c, strlen(buf))

\* memrchr(buf, c, n): offset of the last c among the first n bytes, 0 for NULL
memrchr(buf, c, n) == LastAtOrBefore(buf, c, n)

RECURSIVE strcmp(_, _)
\* byte-wise comparison of two strings: negative, zero or positive
strcmp(s, t) ==
  IF s = <<>> /\ t = <<>> THEN 0
  ELSE IF s = <<>> THEN -1
  ELSE IF t = <<>> THEN 1
  ELSE IF Head(s) < Head(t) THEN -1
  ELSE IF Head(s) > Head(t) THEN 1
  ELSE strcmp(Tail(s), Tail(t))

\* ----------------------------------------------- basename and dirname (libgen.h)

RECURSIVE BackOverSlashes(_, _)
\* while (p > path && p[-1] == '/') --p;
BackOverSlashes(buf, p) ==
  IF p > 1 /\ buf[p - 1] = SEP THEN BackOverSlashes(buf, p - 1) ELSE p

RECURSIVE BackOverName(_, _)
\* while (p > path && p[-1] != '/') --p;
BackOverName(buf, p) ==
  IF p > 1 /\ buf[p - 1] # SEP THEN BackOverName(buf, p - 1) ELSE p

\* basename as <libgen.h> declares it (the POSIX one, which writes into its
\* argument): the buffer after the call and the result, either an offset into
\* the buffer or the static string "." (static = TRUE).
XpgBasenameNoStrip(buf) ==
  LET p == strrchr(buf, SEP) IN
    [buf |-> buf, static |-> FALSE, off |-> p + 1]

basename(buf) ==
  IF buf[1] = NUL THEN [buf |-> buf, static |-> TRUE, off |-> 0]
  ELSE
    LET p == strrchr(buf, SEP) IN
      IF p = 0 THEN [buf |-> buf, static |-> FALSE, off |-> 1]
      ELSE IF buf[p + 1] = NUL THEN
        \* there is a trailing slash: remove it or them
        LET q == BackOverSlashes(buf, p) IN
          IF q > 1
            THEN [buf |-> [buf EXCEPT ![q] = NUL], static |-> FALSE,
                  off |-> BackOverName(buf, q - 1)]
            \* the string consists of slashes only: the last one
            ELSE [buf |-> buf, static |-> FALSE, off |-> strlen(buf)]
      ELSE [buf |-> buf, static |-> FALSE, off |-> p + 1]

\* dirname: the buffer after the call and the result, either the start of the
\* buffer or the static string "." (static = TRUE).
dirname(buf) ==
  LET ls0 == strrchr(buf, SEP)
      \* a slash that ends the string: look for the one before the last name
      ls1 == IF ls0 # 0 /\ ls0 # 1 /\ buf[ls0 + 1] = NUL
               THEN LET runp == BackOverSlashes(buf, ls0) IN
                      IF runp # 1 THEN memrchr(buf, SEP, runp - 1) ELSE ls0
               ELSE ls0
  IN
    IF ls1 # 0 THEN
      LET runp == BackOverSlashes(buf, ls1)
          cut == IF runp = 1
                   THEN (IF ls1 = 2 THEN 3 ELSE 2)
                   ELSE runp
      IN [buf |-> [buf EXCEPT ![cut] = NUL], static |-> FALSE]
    ELSE [buf |-> buf, static |-> TRUE]

\* main's split of one root argument: (lastComponent, parentPath) as the two
\* strings processDir receives.  lastComponent is read after dirname has
\* written into the buffer both results point into.
SplitRoot(arg) ==
  LET dirPathCopy == strdup(arg)
      b == basename(dirPathCopy)
      d == dirname(b.buf)
  IN [dn   |-> IF b.static THEN DotName ELSE CStr(d.buf, b.off),
      pstr |-> IF d.static THEN DotName ELSE CStr(d.buf, 1)]

\* ------------------------------------------------------------ file system
\* The tree the program runs on.  Node 0 is "/", node 1 the working directory
\* /h.  The nodes under /h/A carry the types dtype gives them; a node whose
\* parent is not a directory does not exist.
Nodes == 0 .. 6
RootNode == 0
Cwd == 1
NoNode == -1

parent == <<0, 1, 2, 2, 2, 3>>
ParentOf(n) == IF n = RootNode THEN RootNode ELSE parent[n]

\* "h", "A", "C", "B", "Cc", "d"
name == <<(<<104>>), (<<65>>), (<<67>>), (<<66>>), (<<67, 99>>), (<<100>>)>>

\* st_size and st_blocks of a node that is a regular file
st_size == <<0, 0, 700, 1025, 5, 2>>
st_blocks == <<0, 0, 8, 8, 8, 8>>

Types == {"DT_DIR", "DT_REG", "DT_LNK", "DT_FIFO", "DT_SOCK", "DT_CHR", "DT_UNKNOWN"}

VARIABLES dtype, noperm, argv, pc, i, tstat, dstat, call, stack, printed,
          trace, openDirs, nfd, lastCall, rootCall, rootLog, returns

vars == <<dtype, noperm, argv, pc, i, tstat, dstat, call, stack, printed,
          trace, openDirs, nfd, lastCall, rootCall, rootLog, returns>>

IsDir(n) == n = RootNode \/ dtype[n] = "DT_DIR"

RECURSIVE Exists(_)
Exists(n) == n = RootNode \/ (IsDir(ParentOf(n)) /\ Exists(ParentOf(n)))

Children(n) == {m \in Nodes \ {RootNode} : parent[m] = n /\ Exists(m)}

RECURSIVE Split(_, _)
\* the components of a path, cut at every separator; cur is the component read
\* so far
Split(path, cur) ==
  IF path = <<>> THEN <<cur>>
  ELSE IF Head(path) = SEP THEN <<cur>> \o Split(Tail(path), <<>>)
  ELSE Split(Tail(path), Append(cur, Head(path)))

\* one step of path resolution: component comp looked up in directory n
Lookup(n, comp) ==
  IF n = NoNode \/ ~IsDir(n) THEN NoNode
  ELSE IF comp = <<>> \/ comp = DotName THEN n
  ELSE IF comp = DotDotName THEN ParentOf(n)
  ELSE LET hit == {m \in Children(n) : name[m] = comp} IN
         IF hit = {} THEN NoNode ELSE CHOOSE m \in hit : TRUE

RECURSIVE LookupAll(_, _)
LookupAll(n, comps) ==
  IF comps = <<>> THEN n ELSE LookupAll(Lookup(n, Head(comps)), Tail(comps))

\* the node a path names, NoNode when it names none
Resolve(path) ==
  IF path = <<>> THEN NoNode
  ELSE LookupAll(IF Head(path) = SEP THEN RootNode ELSE Cwd, Split(path, <<>>))

\* opendir: the directory node behind the stream, NoNode for NULL
opendir(path) ==
  LET n == Resolve(path) IN
    IF n # NoNode /\ IsDir(n) /\ n \notin noperm THEN n ELSE NoNode

\* d_reclen of the record readdir returns for a name: the header of 19 bytes,
\* the name and its NUL, rounded up to a multiple of 8
RecLen(nm) == ((19 + Len(nm) + 1 + 7) \div 8) * 8

Dirent(nm, ty, n) ==
  [d_name |-> nm, d_type |-> ty, d_reclen |-> RecLen(nm), d_ino |-> n]

\* everything readdir will return for directory n, "." and ".." included
DirStream(n) ==
  {Dirent(DotName, "DT_DIR", n), Dirent(DotDotName, "DT_DIR", ParentOf(n))}
    \cup {Dirent(name[m], dtype[m], m) : m \in Children(n)}

\* -------------------------------------------------------------- statistics
\* struct summary after memset(.., 0, ..)
ZeroSummary ==
  [dirs |-> 0, files |-> 0, links |-> 0, fifos |-> 0, socks |-> 0,
   size |-> 0, blocks |-> 0]

MemsetKeep(s) == s

\* memset(&dstat, 0, sizeof(dstat))
memset(s) == ZeroSummary

\* the switch on dp->d_type in processDir's loop
UpdateStats(stats, dp) ==
  CASE dp.d_type = "DT_REG" ->
         [stats EXCEPT !.files = @ + 1, !.size = @ + dp.d_reclen]
    [] dp.d_type = "DT_DIR" -> [stats EXCEPT !.dirs = @ + 1]
    [] dp.d_type = "DT_LNK" -> [stats EXCEPT !.links = @ + 1]
    [] dp.d_type = "DT_FIFO" -> [stats EXCEPT !.fifos = @ + 1]
    [] dp.d_type = "DT_SOCK" -> [stats EXCEPT !.socks = @ + 1]
    [] OTHER -> stats

\* main: tstat.x += dstat.x for each of the seven fields
AddSummary(t, d) ==
  [files |-> t.files + d.files, dirs |-> t.dirs + d.dirs,
   links |-> t.links + d.links, fifos |-> t.fifos + d.fifos,
   socks |-> t.socks + d.socks, size |-> t.size + d.size,
   blocks |-> t.blocks + d.blocks]

\* ------------------------------------------------------------------- sort
DirentCompareByName(e1, e2) == strcmp(e1.d_name, e2.d_name)

dirent_compare(e1, e2) ==
  IF e1.d_type = "DT_DIR" /\ e2.d_type # "DT_DIR" THEN -1
  ELSE IF e1.d_type # "DT_DIR" /\ e2.d_type = "DT_DIR" THEN 1
  ELSE strcmp(e1.d_name, e2.d_name)

RECURSIVE Insert(_, _)
\* e put into the sorted sequence s, before the first element it compares
\* less than
Insert(e, s) ==
  IF s = <<>> THEN <<e>>
  ELSE IF dirent_compare(e, Head(s)) < 0 THEN <<e>> \o s
  ELSE <<Head(s)>> \o Insert(e, Tail(s))

RECURSIVE qsort(_)
\* qsort(files, count, .., dirent_compare)
qsort(files) ==
  IF files = <<>> THEN <<>> ELSE Insert(Head(files), qsort(Tail(files)))

\* ------------------------------------------------------------- processDir
\* the path processDir builds from the prefix pstr and the name dn; the
\* length of pstr is held in an unsigned short
Compose(pstr, dn) ==
  LET oldPathLength == Len(pstr) % 65536 IN
    IF oldPathLength > 0 /\ pstr[oldPathLength] # SEP
      THEN pstr \o <<SEP>> \o dn
      ELSE pstr \o dn

NeverRecurse(dp) == FALSE

\* the condition under which processDir calls itself for an entry
ShouldRecurse(dp) ==
  dp.d_type = "DT_DIR" /\ dp.d_name # DotDotName /\ dp.d_name # DotName

ClosedirLeak(open, h) == open

\* closedir(dir): the handle leaves the set of open handles
closedir(open, h) == open \ {h}

Top == stack[Len(stack)]
Pop == SubSeq(stack, 1, Len(stack) - 1)
SetTop(f) == [stack EXCEPT ![Len(stack)] = f]

\* main, loop body up to the call: the per-root statistics are zeroed, the
\* root argument is split and processDir is called with the two parts
MainCall ==
  /\ pc = "main"
  /\ i <= Len(argv)
  /\ dstat' = memset(dstat)
  /\ call' = SplitRoot(argv[i])
  /\ trace' = <<>>
  /\ pc' = "enter"
  /\ UNCHANGED <<dtype, noperm, argv, i, tstat, stack, printed, openDirs, nfd,
                 lastCall, rootCall, rootLog, returns>>

\* processDir, entry: the path is composed and opened; a directory that
\* cannot be opened makes the call return at once
ProcessDirOpen ==
  /\ pc = "enter"
  /\ LET newPath == Compose(call.pstr, call.dn)
         n == opendir(newPath)
         rec == [pstr |-> call.pstr, dn |-> call.dn, newPath |-> newPath]
     IN /\ lastCall' = rec
        /\ rootCall' = IF stack = <<>> THEN rec ELSE rootCall
        /\ IF n = NoNode
             THEN /\ pc' = "ret"
                  /\ returns' = returns \cup {"unavailable"}
                  /\ UNCHANGED <<stack, openDirs, nfd>>
             ELSE /\ stack' = Append(stack,
                        [newPath |-> newPath, node |-> n, dir |-> nfd + 1,
                         stream |-> DirStream(n), files |-> <<>>, i |-> 0])
                  /\ openDirs' = openDirs \cup {nfd + 1}
                  /\ nfd' = nfd + 1
                  /\ pc' = "read"
                  /\ UNCHANGED returns
  /\ UNCHANGED <<dtype, noperm, argv, i, tstat, dstat, call, printed, trace,
                 rootLog>>

\* one turn of the readdir loop: the next record of the stream, in whatever
\* order the file system hands them out; "." and ".." are skipped
ReadDirEntry ==
  /\ pc = "read"
  /\ Top.stream # {}
  /\ \E dp \in Top.stream :
       stack' = SetTop(
         [Top EXCEPT !.stream = @ \ {dp},
                     !.files = IF dp.d_name = DotName \/ dp.d_name = DotDotName
                                 THEN @ ELSE Append(@, dp)])
  /\ UNCHANGED <<dtype, noperm, argv, pc, i, tstat, dstat, call, printed,
                 trace, openDirs, nfd, lastCall, rootCall, rootLog, returns>>

\* readdir returned NULL: an empty directory is closed and the call returns;
\* otherwise the entries are sorted (twice) and the loop over them starts
ReadDirEnd ==
  /\ pc = "read"
  /\ Top.stream = {}
  /\ IF Len(Top.files) = 0
       THEN /\ openDirs' = closedir(openDirs, Top.dir)
            /\ stack' = Pop
            /\ pc' = "ret"
            /\ returns' = returns \cup {"empty"}
       ELSE /\ stack' = SetTop([Top EXCEPT !.files = qsort(qsort(@))])
            /\ pc' = "loop"
            /\ UNCHANGED <<openDirs, returns>>
  /\ UNCHANGED <<dtype, noperm, argv, i, tstat, dstat, call, printed, trace,
                 nfd, lastCall, rootCall, rootLog>>

\* one turn of the loop over the sorted entries: the name is printed, the
\* statistics are updated, and a directory is entered
Visit ==
  /\ pc = "loop"
  /\ Top.i < Len(Top.files)
  /\ LET dp == Top.files[Top.i + 1] IN
       /\ printed' = Append(printed, dp.d_name)
       /\ trace' = Append(trace, dp.d_ino)
       /\ dstat' = UpdateStats(dstat, dp)
       /\ IF ShouldRecurse(dp)
            THEN /\ call' = [dn |-> dp.d_name, pstr |-> Top.newPath]
                 /\ pc' = "enter"
                 /\ UNCHANGED stack
            ELSE /\ stack' = SetTop([Top EXCEPT !.i = @ + 1])
                 /\ UNCHANGED <<call, pc>>
  /\ UNCHANGED <<dtype, noperm, argv, i, tstat, openDirs, nfd, lastCall,
                 rootCall, rootLog, returns>>

\* the loop is over: the directory is closed and the call returns
LoopEnd ==
  /\ pc = "loop"
  /\ Top.i = Len(Top.files)
  /\ openDirs' = closedir(openDirs, Top.dir)
  /\ stack' = Pop
  /\ pc' = "ret"
  /\ returns' = returns \cup {"iterated"}
  /\ UNCHANGED <<dtype, noperm, argv, i, tstat, dstat, call, printed, trace,
                 nfd, lastCall, rootCall, rootLog>>

\* a nested call has returned: the caller's loop goes on with the next entry
ReturnToLoop ==
  /\ pc = "ret"
  /\ stack # <<>>
  /\ stack' = SetTop([Top EXCEPT !.i = @ + 1])
  /\ pc' = "loop"
  /\ UNCHANGED <<dtype, noperm, argv, i, tstat, dstat, call, printed, trace,
                 openDirs, nfd, lastCall, rootCall, rootLog, returns>>

\* the call for a root has returned: main adds the root's statistics to the
\* grand total and goes on with the next root
ReturnToMain ==
  /\ pc = "ret"
  /\ stack = <<>>
  /\ tstat' = AddSummary(tstat, dstat)
  /\ rootLog' = Append(rootLog,
        [arg |-> argv[i], call |-> rootCall, stat |-> dstat, trace |-> trace])
  /\ i' = i + 1
  /\ pc' = "main"
  /\ UNCHANGED <<dtype, noperm, argv, dstat, call, stack, printed, trace,
                 openDirs, nfd, lastCall, rootCall, returns>>

\* all roots are processed
MainDone ==
  /\ pc = "main"
  /\ i > Len(argv)
  /\ pc' = "done"
  /\ UNCHANGED <<dtype, noperm, argv, i, tstat, dstat, call, stack, printed,
                 trace, openDirs, nfd, lastCall, rootCall, rootLog, returns>>

Next ==
  \/ MainCall
  \/ ProcessDirOpen
  \/ ReadDirEntry
  \/ ReadDirEnd
  \/ Visit
  \/ LoopEnd
  \/ ReturnToLoop
  \/ ReturnToMain
  \/ MainDone

\* ---------------------------------------------------------- initial states
MaxRoots == 2
MaxPathLen == 4

RECURSIVE SeqsUpTo(_, _)
\* the sequences over S of length 1 .. n
SeqsUpTo(S, n) ==
  IF n = 0 THEN {}
  ELSE SeqsUpTo(S, n - 1) \cup [1 .. n -> S]

\* the root arguments "A", "x" (no such entry), "A/C" and "/h"
RootPaths == {<<65>>, <<120>>, <<65, SEP, 67>>, <<SEP, 104>>}

NoCall == [pstr |-> <<>>, dn |-> <<>>, newPath |-> <<>>]

\* the state in which main enters its loop over the roots: tstat zeroed
InitProgram ==
  /\ pc = "main"
  /\ i = 1
  /\ tstat = ZeroSummary
  /\ dstat = ZeroSummary
  /\ call = [dn |-> <<>>, pstr |-> <<>>]
  /\ stack = <<>>
  /\ printed = <<>>
  /\ trace = <<>>
  /\ openDirs = {}
  /\ nfd = 0
  /\ lastCall = NoCall
  /\ rootCall = NoCall
  /\ rootLog = <<>>
  /\ returns = {}

\* trees: C and B of every type, C unreadable or not; roots: every list of
\* 1 .. MaxRoots root paths
Init ==
  /\ \E tC \in Types, tB \in Types :
       dtype = <<"DT_DIR", "DT_DIR", tC, tB, "DT_REG", "DT_REG">>
  /\ noperm \in {{}, {3}}
  /\ (3 \in noperm => dtype[3] = "DT_DIR")
  /\ argv \in SeqsUpTo(RootPaths, MaxRoots)
  /\ InitProgram

Spec == Init /\ [][Next]_vars

PathBytes == {SEP, DOT, 65, 104}

\* one tree; roots: a path of 1 .. MaxPathLen bytes, given without and with a
\* trailing separator
InitSplit ==
  /\ dtype = <<"DT_DIR", "DT_DIR", "DT_DIR", "DT_LNK", "DT_REG", "DT_REG">>
  /\ noperm = {}
  /\ \E p \in SeqsUpTo(PathBytes, MaxPathLen) : argv = <<p, Append(p, SEP)>>
  /\ InitProgram

SpecSplit == InitSplit /\ [][Next]_vars

\* ------------------------------------------------- vocabulary of the claims
\* a is byte-wise lexicographically smaller than b
LexLess(a, b) ==
  \E k \in 1 .. Len(a) + 1 :
    /\ \A j \in 1 .. k - 1 : j <= Len(b) /\ a[j] = b[j]
    /\ \/ k = Len(a) + 1 /\ Len(b) >= k
       \/ k <= Len(a) /\ k <= Len(b) /\ a[k] < b[k]

\* sibling x has to be printed before sibling y
Before(x, y) ==
  \/ dtype[x] = "DT_DIR" /\ dtype[y] # "DT_DIR"
  \/ /\ (dtype[x] = "DT_DIR") = (dtype[y] = "DT_DIR")
     /\ LexLess(name[x], name[y])

Openable(n) == n # NoNode /\ IsDir(n) /\ n \notin noperm

RECURSIVE Reach(_)
\* the entries reachable from directory n through entries typed directory
Reach(n) ==
  IF ~Openable(n) THEN {}
  ELSE Children(n) \cup
       UNION {Reach(m) : m \in {c \in Children(n) : dtype[c] = "DT_DIR"}}

RECURSIVE IsDesc(_, _)
\* node m lies strictly below node c
IsDesc(m, c) ==
  m # RootNode /\ (ParentOf(m) = c \/ IsDesc(ParentOf(m), c))

Positions(t) == 1 .. Len(t)
Range(t) == {t[p] : p \in Positions(t)}
CountType(t, ty) == Cardinality({p \in Positions(t) : dtype[t[p]] = ty})

RECURSIVE SumOver(_, _)
\* the sum of f[n] over the regular files n of trace t
SumOver(t, f) ==
  IF t = <<>> THEN 0
  ELSE (IF dtype[Head(t)] = "DT_REG" THEN f[Head(t)] ELSE 0) + SumOver(Tail(t), f)

RECURSIVE SumRecLen(_)
SumRecLen(t) ==
  IF t = <<>> THEN 0
  ELSE (IF dtype[Head(t)] = "DT_REG" THEN RecLen(name[Head(t)]) ELSE 0)
         + SumRecLen(Tail(t))

\* what one traversal that printed trace t leaves in a zeroed accumulator
TraceSummary(t) ==
  [dirs |-> CountType(t, "DT_DIR"), files |-> CountType(t, "DT_REG"),
   links |-> CountType(t, "DT_LNK"), fifos |-> CountType(t, "DT_FIFO"),
   socks |-> CountType(t, "DT_SOCK"), size |-> SumRecLen(t), blocks |-> 0]

RECURSIVE SumLog(_, _)
\* the sum of field fld over the per-root accumulators of log
SumLog(log, fld) ==
  IF log = <<>> THEN 0 ELSE Head(log).stat[fld] + SumLog(Tail(log), fld)

Fields == {"dirs", "files", "links", "fifos", "socks", "size", "blocks"}
RootReturned == pc = "ret" /\ stack = <<>>

\* --------------------------------------------------------------------- C1
\* C1: of two printed children of one directory, a directory comes before a
\* non-directory, and within a group the byte-wise smaller name comes first;
\* the lines printed are the names of the entries visited.
C1_SiblingOrder ==
  /\ \A p, q \in Positions(trace) :
       (/\ ParentOf(trace[p]) = ParentOf(trace[q])
        /\ Before(trace[p], trace[q])) => p < q
  /\ Len(printed) >= Len(trace)
  /\ \A p \in Positions(trace) :
       printed[Len(printed) - Len(trace) + p] = name[trace[p]]
  /\ \A k \in 1 .. Len(stack) :
       (stack[k].stream = {} /\ pc # "read") =>
          {e.d_ino : e \in Range(stack[k].files)} = Children(stack[k].node)

\* a directory was printed before a sibling that is no directory and has the
\* byte-wise smaller name
C1_Witness ==
  \E p, q \in Positions(trace) :
    /\ p < q
    /\ ParentOf(trace[p]) = ParentOf(trace[q])
    /\ dtype[trace[p]] = "DT_DIR" /\ dtype[trace[q]] # "DT_DIR"
    /\ LexLess(name[trace[q]], name[trace[p]])

\* --------------------------------------------------------------------- C2
\* C2: when the call for a root has returned, the five counters of its
\* accumulator add up to the number of entry lines printed for that root.
C2_CountersSumToLines ==
  RootReturned =>
    dstat.dirs + dstat.files + dstat.links + dstat.fifos + dstat.socks
      = Len(trace)

\* --------------------------------------------------------------------- C3
\* C3: when the call for a root has returned, the entries printed for it are
\* exactly the entries reachable from the directory the root argument names
\* through entries typed directory, each printed once.
C3_PrintedIsReachable ==
  RootReturned =>
    /\ Range(trace) = Reach(Resolve(argv[i]))
    /\ Cardinality(Range(trace)) = Len(trace)

\* --------------------------------------------------------------------- C4
\* C4: every field of the grand total is the sum of that field over the
\* per-root accumulators, one per root processed, and each per-root
\* accumulator holds what its own root's traversal counted, nothing else.
C4_GrandTotalIsSum ==
  /\ \A fld \in Fields : tstat[fld] = SumLog(rootLog, fld)
  /\ \A k \in Positions(rootLog) :
       rootLog[k].stat = TraceSummary(rootLog[k].trace)
  /\ (pc = "done" => Len(rootLog) = Len(argv))

\* main is done with two roots or more, two of which counted something
C4_Witness ==
  /\ pc = "done"
  /\ Len(argv) >= 2
  /\ rootLog[1].stat.files > 0
  /\ rootLog[2].stat.dirs > 0
  /\ tstat.files > rootLog[1].stat.files

\* --------------------------------------------------------------------- C5
\* C5: a root that cannot be opened leaves nothing printed and every field of
\* its accumulator zero, and the grand total is the sum over the roots that
\* can be opened.
C5_UnavailableRootCountsNothing ==
  \A k \in Positions(rootLog) :
    ~Openable(Resolve(rootLog[k].arg)) =>
      rootLog[k].trace = <<>> /\ rootLog[k].stat = ZeroSummary

\* --------------------------------------------------------------------- C6
\* C6: the directory handles that are open are exactly those of the calls in
\* progress, one each; when no call is in progress none is open.
C6_HandlesClosedOnReturn ==
  /\ openDirs = {stack[k].dir : k \in 1 .. Len(stack)}
  /\ Cardinality(openDirs) = Len(stack)
  /\ (stack = <<>> => openDirs = {})

\* main is done after calls that returned on each of the three paths
C6_Witness ==
  /\ pc = "done"
  /\ returns = {"unavailable", "empty", "iterated"}
  /\ nfd >= 3
  /\ openDirs = {}

\* --------------------------------------------------------------------- C7
\* C7: when the call for a root has returned, size is the sum of the byte
\* sizes of the regular files visited and blocks the sum of their block
\* counts.
C7_SizeAndBlocksOfRegularFiles ==
  RootReturned =>
    /\ dstat.size = SumOver(trace, st_size)
    /\ dstat.blocks = SumOver(trace, st_blocks)

\* --------------------------------------------------------------------- C8
\* C8: a root path that names a directory gives the same composed path, the
\* same printed entries and the same accumulator with and without a trailing
\* separator; a path without separator gets "." as its parent.
C8_TrailingSeparatorSame ==
  (/\ pc = "done"
   /\ argv[1][Len(argv[1])] # SEP
   /\ Openable(Resolve(argv[1]))) =>
     /\ rootLog[1].call = rootLog[2].call
     /\ rootLog[1].trace = rootLog[2].trace
     /\ rootLog[1].stat = rootLog[2].stat
     /\ (SEP \notin Range(argv[1]) => rootLog[1].call.pstr = DotName)

\* both forms of a root of several segments were walked and printed entries
C8_Witness ==
  /\ pc = "done"
  /\ argv[1][Len(argv[1])] # SEP
  /\ Openable(Resolve(argv[1]))
  /\ SEP \in Range(argv[1])
  /\ rootLog[2].call.dn # <<>>
  /\ Len(rootLog[2].trace) >= 2

\* --------------------------------------------------------------------- C9
RECURSIVE StripTrailingSep(_)
StripTrailingSep(s) ==
  IF s # <<>> /\ s[Len(s)] = SEP
    THEN StripTrailingSep(SubSeq(s, 1, Len(s) - 1)) ELSE s

RECURSIVE StripLeadingSep(_)
StripLeadingSep(s) ==
  IF s # <<>> /\ Head(s) = SEP THEN StripLeadingSep(Tail(s)) ELSE s

\* C9: the path a call composes is the parent part, exactly one separator,
\* and the child name.
C9_ExactlyOneSeparator ==
  lastCall # NoCall =>
    lastCall.newPath =
      StripTrailingSep(lastCall.pstr) \o <<SEP>> \o StripLeadingSep(lastCall.dn)

\* -------------------------------------------------------------------- C10
\* C10: a directory is printed and counted before everything below it, and
\* everything reachable below it is printed before the next entry that is
\* not below it; no entry is printed twice, and the root's accumulator has
\* counted each printed directory once.
C10_PreOrder ==
  /\ Cardinality(Range(trace)) = Len(trace)
  /\ dstat.dirs = CountType(trace, "DT_DIR")
  /\ \A p \in Positions(trace) :
       dtype[trace[p]] = "DT_DIR" =>
         /\ \A q \in Positions(trace) : IsDesc(trace[q], trace[p]) => q > p
         /\ \A q \in Positions(trace) :
              (q > p /\ ~IsDesc(trace[q], trace[p])) =>
                /\ \A r \in Positions(trace) :
                     r > q => ~IsDesc(trace[r], trace[p])
                /\ Reach(trace[p]) \subseteq {trace[r] : r \in p + 1 .. q - 1}

\* a directory, then an entry below it, then its next sibling were printed
C10_Witness ==
  \E p, r, q \in Positions(trace) :
    /\ p < r /\ r < q
    /\ dtype[trace[p]] = "DT_DIR"
    /\ IsDesc(trace[r], trace[p])
    /\ ParentOf(trace[q]) = ParentOf(trace[p])

====
